---- MODULE Spec2Model ----
(***************************************************************************)
(* A model of the AMD view! plugin (src/view.js, version 0.4.0).           *)
(*                                                                         *)
(* JavaScript strings are TLA+ strings; Len, SubSeq, Tail and \o of TLC    *)
(* work on them character by character, so indexOf, substring and replace  *)
(* are computed on the characters as the engine computes them.             *)
(*                                                                         *)
(* One load call is followed from the call of load to the call of the      *)
(* callback.  The loops of parse and of the substitution are taken one     *)
(* iteration per action; the locals of the code are the variables.         *)
(***************************************************************************)
EXTENDS Integers, Sequences, FiniteSets, TLC

\* Number of fragments an enumerated document is made of, at most.
MaxFrags == 2

\* The length of the text up to which a pass of parse that makes its text longer
\* and longer is followed.
MaxTextLen == 160

----------------------------------------------------------------------------
(* Built-ins of the language the code uses *)

Min(S) == CHOOSE x \in S : \A y \in S : x <= y

Max(S) == CHOOSE x \in S : \A y \in S : x >= y

Clamp(n, len) == IF n < 0 THEN 0 ELSE IF n > len THEN len ELSE n

\* s.substring(a, b): positions are 0-based, clamped, swapped when a > b.
Substring(s, a, b) ==
    LET a1 == Clamp(a, Len(s))
        b1 == Clamp(b, Len(s))
    IN  IF a1 <= b1 THEN SubSeq(s, a1 + 1, b1) ELSE SubSeq(s, b1 + 1, a1)

\* s.substring(a)
SubstringFrom(s, a) == Substring(s, a, Len(s))

\* s.charAt(i)
CharAt(s, i) == IF i < 0 \/ i >= Len(s) THEN "" ELSE SubSeq(s, i + 1, i + 1)

\* The positions at or after from where pat occurs in s.
Occurrences(s, pat, from) ==
    {i \in from .. (Len(s) - Len(pat)) : SubSeq(s, i + 1, i + Len(pat)) = pat}

\* s.indexOf(pat, from): the smallest position >= from where pat occurs, or -1.
IndexOf(s, pat, from) ==
    LET hits == Occurrences(s, pat, Clamp(from, Len(s)))
    IN  IF hits = {} THEN -1 ELSE Min(hits)

\* s.lastIndexOf(pat)
LastIndexOf(s, pat) ==
    LET hits == Occurrences(s, pat, 0)
    IN  IF hits = {} THEN -1 ELSE Max(hits)

UpperCaseLetters == "ABCDEFGHIJKLMNOPQRSTUVWXYZ"

LowerCaseLetters == "abcdefghijklmnopqrstuvwxyz"

Digits == "0123456789"

\* The characters of s.
Chars(s) == {SubSeq(s, i, i) : i \in 1 .. Len(s)}

\* The lower case letter of every upper case letter.
LowerOf ==
    [c \in Chars(UpperCaseLetters) |->
        LET i == CHOOSE i \in 1 .. 26 : SubSeq(UpperCaseLetters, i, i) = c
        IN  SubSeq(LowerCaseLetters, i, i)]

LowerChar(c) == IF c \in DOMAIN LowerOf THEN LowerOf[c] ELSE c

RECURSIVE ToLowerCase(_)
\* s.toLowerCase()
ToLowerCase(s) ==
    IF s = "" THEN "" ELSE LowerChar(CharAt(s, 0)) \o ToLowerCase(Tail(s))

\* The characters of the class \w of regular expressions.
WordChars ==
    Chars(UpperCaseLetters) \cup Chars(LowerCaseLetters) \cup Chars(Digits) \cup {"_"}

IsWordChar(c) == c \in WordChars

RECURSIVE WordRun(_, _)
\* The position of the first character at or after i that is not of \w.
WordRun(s, i) ==
    IF i < Len(s) /\ IsWordChar(CharAt(s, i)) THEN WordRun(s, i + 1) ELSE i

\* pluginRegExp.test(s), pluginRegExp = /^\w+!/
pluginRegExpTest(s) ==
    LET n == WordRun(s, 0) IN n >= 1 /\ CharAt(s, n) = "!"

RECURSIVE GetSubstitution(_, _, _, _)
\* The expansion of the replacement text of String.prototype.replace for a string
\* pattern: $$ is $, $& the matched text, $' the text after the match; with no
\* capture groups $1..$9 stay as they are. (The fourth pattern, the dollar sign and
\* a grave accent for the text before the match, is left out: no text of the model
\* holds a grave accent.)
GetSubstitution(repl, matched, before, after) ==
    IF repl = "" THEN ""
    ELSE IF CharAt(repl, 0) = "$" /\ Len(repl) >= 2
         THEN LET c == CharAt(repl, 1)
                  rest == GetSubstitution(SubstringFrom(repl, 2), matched, before, after)
              IN  CASE c = "$" -> "$" \o rest
                    [] c = "&" -> matched \o rest
                    [] c = "'" -> after \o rest
                    [] OTHER -> "$" \o GetSubstitution(SubstringFrom(repl, 1), matched, before, after)
         ELSE CharAt(repl, 0) \o GetSubstitution(Tail(repl), matched, before, after)

\* s.replace(pat, repl) with a string pattern: the first occurrence only.
Replace(s, pat, repl) ==
    LET i == IndexOf(s, pat, 0)
        before == Substring(s, 0, i)
        after == SubstringFrom(s, i + Len(pat))
    IN  IF i = -1 THEN s
        ELSE before \o GetSubstitution(repl, pat, before, after) \o after

\* The properties every object inherits from Object.prototype: "k in {}" is true of them.
ObjectPrototypeKeys ==
    {"constructor", "toString", "toLocaleString", "valueOf", "hasOwnProperty",
     "isPrototypeOf", "propertyIsEnumerable", "__proto__", "__defineGetter__",
     "__defineSetter__", "__lookupGetter__", "__lookupSetter__"}

\* k in obj, for an object literal whose own keys are ownKeys.
InObject(k, ownKeys) == k \in ownKeys \/ k \in ObjectPrototypeKeys

----------------------------------------------------------------------------
(* Values *)

\* A string value.
Str(s) == [t |-> "string", s |-> s]

\* An array of strings.
Arr(q) == [t |-> "array", a |-> q]

Undefined == [t |-> "undefined"]

Null == [t |-> "null"]

\* A function; body names what it computes (see Call).
Fn(body) == [t |-> "function", body |-> body]

\* An object; execute is the body of its execute method, "" when it has none.
Obj(execute) == [t |-> "object", execute |-> execute]

RECURSIVE Join(_, _)
\* q.join(sep)
Join(q, sep) ==
    IF q = <<>> THEN ""
    ELSE IF Len(q) = 1 THEN q[1]
    ELSE q[1] \o sep \o Join(Tail(q), sep)

\* String(v), and the conversion of v where it is concatenated to a string.
ToStr(v) ==
    CASE v.t = "string" -> v.s
      [] v.t = "array" -> Join(v.a, ",")
      [] v.t = "undefined" -> "undefined"
      [] v.t = "null" -> "null"
      [] v.t = "object" -> "[object Object]"
      [] v.t = "function" -> "function " \o v.body \o "() { [code] }"

\* typeof v
TypeOf(v) ==
    CASE v.t = "array" -> "object"
      [] v.t = "null" -> "object"
      [] OTHER -> v.t

----------------------------------------------------------------------------
(* The utility modules util/base and util/string *)

\* util/base nameWithExt(sName, sExt): sName when it has an extension, a period
\* after its last slash; sName, a period and sExt otherwise.
nameWithExt(sName, sExt) ==
    IF LastIndexOf(sName, ".") > LastIndexOf(sName, "/")
    THEN sName
    ELSE sName \o "." \o sExt

RECURSIVE SkipSpaces(_, _)
SkipSpaces(s, i) ==
    IF i < Len(s) /\ CharAt(s, i) = " " THEN SkipSpaces(s, i + 1) ELSE i

RECURSIVE ScanUntil(_, _, _)
\* The position of the first character at or after i that is in stops, or Len(s).
ScanUntil(s, i, stops) ==
    IF i < Len(s) /\ CharAt(s, i) \notin stops THEN ScanUntil(s, i + 1, stops) ELSE i

RECURSIVE AttributesFrom(_, _, _)
AttributesFrom(s, i, acc) ==
    LET i0 == SkipSpaces(s, i)
        nameEnd == ScanUntil(s, i0, {"=", " "})
        name == ToLowerCase(Substring(s, i0, nameEnd))
        quote == CharAt(s, nameEnd + 1)
        quoted == quote \in {"\"", "'"}
        valStart == IF quoted THEN nameEnd + 2 ELSE nameEnd + 1
        valEnd == ScanUntil(s, valStart, IF quoted THEN {quote} ELSE {" "})
        hasValue == CharAt(s, nameEnd) = "="
        value == IF hasValue THEN Substring(s, valStart, valEnd) ELSE ""
        next == IF ~hasValue THEN nameEnd ELSE IF quoted THEN valEnd + 1 ELSE valEnd
    IN  IF i0 >= Len(s) THEN acc
        ELSE IF name = "" THEN AttributesFrom(s, next + 1, acc)
        ELSE AttributesFrom(s, next, (name :> value) @@ acc)

\* util/string extractAttributes(sText): the attributes of a tag, from the text
\* between the tag's name and its closing sign. Keys are the attribute names in
\* lower case, values the attribute values without their quotes.
extractAttributes(sText) == AttributesFrom(sText, 0, <<>>)

----------------------------------------------------------------------------
(* Configuration *)

defaultConfig ==
    [cssLoader |-> Str("css"),
     defaultExt |-> Str("html"),
     defaultInclusionExt |-> Str("html"),
     directiveTag |-> Arr(<<"link", "x-link">>),
     inclusionLoader |-> Str("view")]

\* sInclusionStart with the rel of another inclusion directive.
sInclusionStartInclude == "<link rel=\"include\" href=\""

sInclusionStart == "<link rel=\"x-include\" href=\""

sInclusionEnd == "\">"

\* objUtil.mix({}, a, b): the keys of both, the value of b where both have the key.
mix(a, b) ==
    [k \in (DOMAIN a) \cup (DOMAIN b) |-> IF k \in DOMAIN b THEN b[k] ELSE a[k]]

----------------------------------------------------------------------------
(* The hooks of the default configuration *)

\* findTag with the tag names of the default configuration for every settings.
findTagDefaultNames(sText, nStart, settings) ==
    LET tagList == defaultConfig.directiveTag.a
        nK == [nI \in 1 .. Len(tagList) |-> IndexOf(sText, "<" \o tagList[nI] \o " ", nStart)]
        best == {nI \in 1 .. Len(tagList) :
                    /\ nK[nI] > -1
                    /\ \A nJ \in 1 .. Len(tagList) :
                          nK[nJ] > -1 => \/ nK[nI] < nK[nJ]
                                         \/ (nK[nI] = nK[nJ] /\ nI <= nJ)}
    IN  IF best = {} THEN <<>>
        ELSE LET nI == Min(best)
             IN  <<[position |-> nK[nI],
                    name |-> tagList[nI],
                    tagStart |-> "<" \o tagList[nI] \o " "]>>

\* findTag without the comparison of the positions: the last name that is found.
findTagLastName(sText, nStart, settings) ==
    LET tagList == IF TypeOf(settings.directiveTag) = "string"
                   THEN <<settings.directiveTag.s>>
                   ELSE settings.directiveTag.a
        nK == [nI \in 1 .. Len(tagList) |-> IndexOf(sText, "<" \o tagList[nI] \o " ", nStart)]
        found == {nI \in 1 .. Len(tagList) : nK[nI] > -1}
    IN  IF found = {} THEN <<>>
        ELSE LET nI == Max(found)
             IN  <<[position |-> nK[nI],
                    name |-> tagList[nI],
                    tagStart |-> "<" \o tagList[nI] \o " "]>>

\* defaultConfig.findTag(sText, nStart, settings): <<>> is null, <<tag>> a found tag.
findTag(sText, nStart, settings) ==
    LET tagList == IF TypeOf(settings.directiveTag) = "string"
                   THEN <<settings.directiveTag.s>>
                   ELSE settings.directiveTag.a
        nK == [nI \in 1 .. Len(tagList) |-> IndexOf(sText, "<" \o tagList[nI] \o " ", nStart)]
        \* the entry that holds after the loop: the first one of the smallest position
        best == {nI \in 1 .. Len(tagList) :
                    /\ nK[nI] > -1
                    /\ \A nJ \in 1 .. Len(tagList) :
                          nK[nJ] > -1 => \/ nK[nI] < nK[nJ]
                                         \/ (nK[nI] = nK[nJ] /\ nI <= nJ)}
    IN  IF best = {} THEN <<>>
        ELSE LET nI == Min(best)
             IN  <<[position |-> nK[nI],
                    name |-> tagList[nI],
                    tagStart |-> "<" \o tagList[nI] \o " "]>>

\* attrMap[k] when k is a key of attrMap, "" (for undefined) otherwise.
Attr(attrMap, k) == IF k \in DOMAIN attrMap THEN attrMap[k] ELSE ""

DirectiveKinds == {"stylesheet", "css", "include", "x-include", "require", "x-require"}

\* filterTag without toLowerCase.
filterTagCaseSensitive(sTagText, attrMap, settings) ==
    /\ Attr(attrMap, "href") # ""
    /\ Attr(attrMap, "rel") \in DirectiveKinds

\* defaultConfig.filterTag(sTagText, attrMap, settings), as a truth value.
filterTag(sTagText, attrMap, settings) ==
    LET sType == ToLowerCase(Attr(attrMap, "rel"))
    IN  /\ Attr(attrMap, "rel") # ""
        /\ Attr(attrMap, "href") # ""
        /\ sType \in DirectiveKinds

\* The outcome of evaluating the text of a data-if attribute as an expression in
\* the variable data, which is bound to the settings: "true", "false" (the value as a
\* truth value) or "throw". The expressions are those of the documents of the model.
EvalCondition(condition, settings) ==
    CASE condition = "true" -> "true"
      [] condition = "false" -> "false"
      [] condition = "1" -> "true"
      [] condition = "0" -> "false"
      [] condition = "data.cssLoader === 'link'" ->
            IF settings.cssLoader = Str("link") THEN "true" ELSE "false"
      [] condition = "data.missing" -> "false"
      [] OTHER -> "throw"

\* defaultConfig.processIf(data)
processIf(data) == EvalCondition(data.condition, data.settings)

\* The data of a call of settings.processIf for the tag.
IfData(sTagText, attrMap, settings) ==
    [condition |-> attrMap["data-if"],
     resource |-> attrMap.href,
     tagText |-> sTagText,
     attrMap |-> attrMap,
     settings |-> settings]

IsInclusionTag(sTagText, attrMap, settings) ==
    /\ filterTag(sTagText, attrMap, settings)
    /\ ToLowerCase(attrMap.rel) \in {"include", "x-include"}

\* CallsProcessIf with the attribute looked at before the kind of the directive.
CallsProcessIfAnyKind(sTagText, attrMap, settings) ==
    /\ filterTag(sTagText, attrMap, settings)
    /\ "data-if" \in DOMAIN attrMap

\* settings.processIf is called for the tag.
CallsProcessIf(sTagText, attrMap, settings) ==
    /\ IsInclusionTag(sTagText, attrMap, settings)
    /\ "data-if" \in DOMAIN attrMap

\* The calls of settings.processIf in the call of processTag that is the n-th one
\* of the pass.
ProcessIfCalls(n, sTagText, attrMap, settings) ==
    IF CallsProcessIf(sTagText, attrMap, settings)
    THEN <<[call |-> n, data |-> IfData(sTagText, attrMap, settings)]>>
    ELSE <<>>

\* processTagThrows when processTag catches the exception of settings.processIf.
processTagCatches(sTagText, attrMap, settings) == FALSE

\* processTag ends by the exception of settings.processIf.
processTagThrows(sTagText, attrMap, settings) ==
    /\ CallsProcessIf(sTagText, attrMap, settings)
    /\ processIf(IfData(sTagText, attrMap, settings)) = "throw"

\* The result of processTag for a tag that is deleted.
NoResult == [dependency |-> <<>>, inclusion |-> <<>>, text |-> ""]

\* InclusionData without the attribute data-if.
InclusionDataWithoutIf(attrMap) ==
    LET names == {sName \in DOMAIN attrMap :
                     Substring(sName, 0, 5) = "data-" /\ sName # "data-if"}
    IN  IF names = {} THEN <<>>
        ELSE <<[k \in {SubstringFrom(sName, 5) : sName \in names} |->
                  attrMap["data-" \o k]]>>

\* The values of the data- attributes: <<>> when there is none, <<data>> otherwise.
InclusionData(attrMap) ==
    LET names == {sName \in DOMAIN attrMap : Substring(sName, 0, 5) = "data-"}
    IN  IF names = {} THEN <<>>
        ELSE <<[k \in {SubstringFrom(sName, 5) : sName \in names} |->
                  attrMap["data-" \o k]]>>

\* StyleDependency without the test for a loader in the href.
StyleDependencyAlwaysPrefixed(href, settings) ==
    ToStr(settings.cssLoader) \o "!" \o href

\* The dependency of a style directive.
StyleDependency(href, settings) ==
    IF IndexOf(href, "css!", 0) = 0 \/ IndexOf(href, "link!", 0) = 0
    THEN href
    ELSE ToStr(settings.cssLoader) \o "!" \o href

\* Survives without the call of settings.processIf.
SurvivesAlways(sTagText, attrMap, settings) == TRUE

\* An inclusion directive is processed: it has no data-if attribute, or
\* settings.processIf returns true for it.
Survives(sTagText, attrMap, settings) ==
    IF "data-if" \notin DOMAIN attrMap THEN TRUE
    ELSE processIf(IfData(sTagText, attrMap, settings)) = "true"

\* InclusionName with the type attribute put before a loader that the href has.
InclusionNameTypeFirst(attrMap, settings) ==
    LET href == attrMap.href
        prefixed == IF Attr(attrMap, "type") # ""
                    THEN attrMap.type \o "!" \o href
                    ELSE IF ~pluginRegExpTest(href)
                    THEN ToStr(settings.inclusionLoader) \o "!" \o href
                    ELSE href
    IN  nameWithExt(prefixed, ToStr(settings.defaultInclusionExt))

\* The name of the inclusion of an inclusion directive.
InclusionName(attrMap, settings) ==
    LET href == attrMap.href
        prefixed == IF ~pluginRegExpTest(href)
                    THEN (IF Attr(attrMap, "type") # ""
                          THEN attrMap.type
                          ELSE ToStr(settings.inclusionLoader)) \o "!" \o href
                    ELSE href
    IN  nameWithExt(prefixed, ToStr(settings.defaultInclusionExt))

\* RequireDependency without the type attribute.
RequireDependencyNoType(attrMap) == attrMap.href

\* The dependency of a dependency directive.
RequireDependency(attrMap) ==
    IF Attr(attrMap, "type") # "" /\ ~pluginRegExpTest(attrMap.href)
    THEN attrMap.type \o "!" \o attrMap.href
    ELSE attrMap.href

\* defaultConfig.processTag(sTagText, attrMap, settings) when it returns.
\* dependency and inclusion are <<>> for null and <<value>> otherwise;
\* data of an inclusion is <<>> when the field is absent.
processTag(sTagText, attrMap, settings) ==
    IF ~filterTag(sTagText, attrMap, settings) THEN NoResult
    ELSE
    LET sType == ToLowerCase(attrMap.rel)
    IN  IF sType \in {"stylesheet", "css"}
        THEN [NoResult EXCEPT !.dependency = <<StyleDependency(attrMap.href, settings)>>]
        ELSE IF sType \in {"include", "x-include"}
        THEN IF Survives(sTagText, attrMap, settings)
             THEN LET sName == InclusionName(attrMap, settings)
                  IN  [dependency |-> <<sName>>,
                       text |-> sInclusionStart \o sName \o sInclusionEnd,
                       inclusion |-> <<[name |-> sName, data |-> InclusionData(attrMap)]>>]
             ELSE NoResult
        ELSE [NoResult EXCEPT !.dependency = <<RequireDependency(attrMap)>>]

----------------------------------------------------------------------------
(* The host and the inputs of a load call *)

RECURSIVE SettingsFrom(_, _)
SettingsFrom(s, acc) ==
    LET itemEnd == ScanUntil(s, 0, {";"})
        item == Substring(s, 0, itemEnd)
        eq == IndexOf(item, "=", 0)
        found == IF eq > 0
                 THEN (Substring(item, 0, eq) :> Str(SubstringFrom(item, eq + 1))) @@ acc
                 ELSE acc
    IN  IF s = "" THEN acc ELSE SettingsFrom(SubstringFrom(s, itemEnd + 1), found)

\* util/string extractSettings(sText): the settings of "name=value;name=value".
extractSettings(sText) == SettingsFrom(sText, <<>>)

\* typeof of the value the default configuration has for the setting.
DefaultType(sName) == TypeOf(defaultConfig[sName])

\* convertSettings(settings): a value is converted when the default value of its
\* setting is a number or a boolean and the value is of another type.
convertSettings(settings) ==
    [sName \in DOMAIN settings |->
        IF sName \in DOMAIN defaultConfig /\ DefaultType(sName) # TypeOf(settings[sName])
        THEN CASE DefaultType(sName) = "boolean" ->
                    [t |-> "boolean", b |-> settings[sName] # Str("false")]
               [] DefaultType(sName) = "number" ->
                    [t |-> "number", s |-> settings[sName].s]
               [] OTHER -> settings[sName]
        ELSE settings[sName]]

\* require.toUrl(sName) of the host: the name under the base URL.
toUrl(sName) == "./" \o sName

\* The resource names load is called with.
ResourceNames == {"page", "page!cssLoader=link"}

\* The configurations of the plugin the host passes to load.
HostConfigs == {<<>>, [directiveTag |-> Str("x-link"), cssLoader |-> Str("less")]}

\* The pieces the documents are made of.
Fragments ==
    {"a>b ",
     "<link rel=\"stylesheet\" href=\"s.css\">",
     "<x-link rel=\"require\" type=\"css\" href=\"s.css\">",
     "<link rel=\"StyleSheet\" href=\"less!t.css\">",
     "<link rel=\"x-include\" href=\"parts/head\" data-title=\"Hi\">",
     "<x-link rel=\"include\" href=\"view!parts/head.html\" data-title=\"Yo\">",
     "<link rel=\"include\" type=\"tpl\" href=\"foot\">",
     "<x-link rel=\"include\" href=\"foot\" data-if=\"false\">",
     "<link rel=\"icon\" href=\"f.ico\">"}

\* The equal directives of the module documentation, in one document.
EqualDirectivesDoc ==
    "<link rel=\"stylesheet\" href=\"path/to/some/style.css\">\n"
    \o "<x-link rel=\"css\" href=\"css!path/to/some/style.css\">\n"
    \o "<link rel=\"x-require\" href=\"css!path/to/some/style.css\">\n"
    \o "<x-link rel=\"require\" type=\"css\" href=\"path/to/some/style.css\">\n"

\* Documents that are given as a whole.
ExampleDocs ==
    {EqualDirectivesDoc,
     "<p>text</p><link rel=\"stylesheet\"",
     "<x-link rel=\"stylesheet\" href=\"s.css\"><p>x</p>",
     "<link rel=\"include\" href=\"foot\"><p>x</p><x-link rel=\"css\" href=\"s.css\"",
     "<link rel=\"include\" href=\"foot\" data-if=\"nope\"><link rel=\"css\" href=\"s.css\">",
     "<link rel=\"include\" href=\"foot\" data-if=\"data.cssLoader === 'link'\"><p>x</p>",
     "<x-link rel=\"css\" href=\"\"><link href=\"s.css\"><link rel=\"css\" href=\"link!s.css\">",
     "<link rel=\"require\" href=\"toString\"><link rel=\"require\" href=\"a/b\">",
     "<link><x-link rel=\"css\" href=\"s.css\"><link rel=\"css\" href=\"t.css\">",
     "><link rel=\"css\" href=\"s.css\">",
     "<link rel=\"css\" href=\"s.css\" data-if=\"false\"><link rel=\"include\" href=\"foot\">"
        \o "<link rel=\"include\" href=\"parts/head\" data-if=\"1\">",
     "<link rel=\"include\" type=\"tpl\" href=\"text!a/b.txt\">"
        \o "<link rel=\"require\" type=\"css\" href=\"less!c.less\">"}

\* The texts the host delivers for the resource.
Documents ==
    ExampleDocs \cup
    {Join(q, "") : q \in UNION {[1 .. n -> Fragments] : n \in 0 .. MaxFrags}}

\* The values the host has for an inclusion.
Values ==
    {Str("<b>hi</b>"), Str("$$9"), Str("$&"), Fn("render"), Obj("render"), Null}

\* The value of a call of a function of the host with the arguments args:
\*   render: function(data) { return "<h1>" + (data ? data.title : "") + "</h1>"; }
\*   noop:   function() {}
Call(body, args) ==
    CASE body = "render" ->
            Str("<h1>"
                \o (IF args = <<>> THEN ""
                    ELSE IF "title" \in DOMAIN args[1] THEN args[1].title
                    ELSE "undefined")
                \o "</h1>")
      [] OTHER -> Undefined

----------------------------------------------------------------------------
(* The state of a load call *)

VARIABLES
    arguments,      \* load: the arguments sResourceName and config of the call
    pc,             \* where the call is: idle, text, parse, deps, subst, replace,
                    \* done, failed (the host did not deliver), error (an exception)
    conf,           \* load: conf
    requested,      \* the dependency lists the host was asked for, in order
    sInput,         \* the text the host delivered
    sText,          \* parse: sText, then load: sText
    foundTag,       \* parse: foundTag (<<>> is null)
    nStart,         \* findTag: nStart of the last call
    sTag,           \* parse: sTag
    tagResult,      \* parse: tagResult
    deps,           \* parse: deps
    depMap,         \* parse: the own keys of depMap
    inclusionMap,   \* parse: the entries of inclusionMap in the order of their
                    \* creation (<<>> is null: the object is never left empty)
    tagLog,         \* the calls of settings.processTag that returned, so far
    ifLog,          \* the calls of settings.processIf so far
    queue,          \* load: the keys of inclMap the for-in loop has not taken yet
    sInclusion,     \* load: sInclusion, the marker that is replaced
    fetched,        \* load: resource, the value the host has for the inclusion
    resource,       \* load: resource, the text that replaces the marker
    nI,             \* load: nI
    sBefore,        \* the text when the replacement of sInclusion began
    calls,          \* the calls of functions of the host so far
    delivered       \* the arguments of the calls of callback so far

\* What the module keeps between the calls of load, and the load calls that are
\* followed handler by handler when several of them are under way.
VARIABLES
    defaultValues,  \* defaultConfig, the object of the module, as it is now
    loads,          \* the locals of each of the load calls that are under way
    sLoadSettings,  \* version 0.2.0: sLoadSettings of the module
    normLoads       \* version 0.2.0: the resources the loader normalizes and loads

moduleVars == <<defaultValues, loads, sLoadSettings, normLoads>>

\* The variables of the load call that is followed step by step.
callVars ==
    <<arguments, pc, conf, requested, sInput, sText, foundTag, nStart, sTag, tagResult, deps,
      depMap,
      inclusionMap, tagLog, ifLog, queue, sInclusion, fetched, resource, nI, sBefore, calls,
      delivered>>

vars ==
    <<moduleVars, arguments, pc, conf, requested, sInput, sText, foundTag, nStart, sTag, tagResult, deps,
      depMap,
      inclusionMap, tagLog, ifLog, queue, sInclusion, fetched, resource, nI, sBefore, calls,
      delivered>>

parseVars ==
    <<sInput, sText, foundTag, nStart, sTag, tagResult, deps, depMap, inclusionMap, tagLog,
      ifLog>>

substVars == <<queue, sInclusion, fetched, resource, nI, sBefore, calls>>

Init ==
    /\ defaultValues = defaultConfig
    /\ loads = <<>>
    /\ sLoadSettings = Undefined
    /\ normLoads = <<>>
    /\ arguments = <<>>
    /\ pc = "idle"
    /\ conf = <<>>
    /\ requested = <<>>
    /\ sInput = ""
    /\ sText = ""
    /\ foundTag = <<>>
    /\ nStart = 0
    /\ sTag = ""
    /\ tagResult = NoResult
    /\ deps = <<>>
    /\ depMap = {}
    /\ inclusionMap = <<>>
    /\ tagLog = <<>>
    /\ ifLog = <<>>
    /\ queue = <<>>
    /\ sInclusion = ""
    /\ fetched = Undefined
    /\ resource = ""
    /\ nI = 0
    /\ sBefore = ""
    /\ calls = <<>>
    /\ delivered = <<>>

\* Load with the configuration of the host put over the settings of the resource name.
LoadConfigLast(sResourceName, config) ==
    /\ pc = "idle"
    /\ LET n == IndexOf(sResourceName, "!", 0)
           settings == IF n > -1
                       THEN convertSettings(extractSettings(SubstringFrom(sResourceName, n + 1)))
                       ELSE <<>>
           sName == IF n > -1 THEN Substring(sResourceName, 0, n) ELSE sResourceName
           c == mix(mix(defaultConfig, settings), config)
       IN  /\ conf' = c
           /\ requested' = <<<<"text!" \o toUrl(nameWithExt(sName, ToStr(c.defaultExt))),
                               "require">>>>
    /\ arguments' = [sResourceName |-> sResourceName, config |-> config]
    /\ pc' = "text"
    /\ UNCHANGED <<moduleVars, parseVars, substVars, delivered>>

\* load(sResourceName, require, callback, config) up to its request for the text.
Load(sResourceName, config) ==
    /\ pc = "idle"
    /\ LET n == IndexOf(sResourceName, "!", 0)
           settings == IF n > -1
                       THEN convertSettings(extractSettings(SubstringFrom(sResourceName, n + 1)))
                       ELSE <<>>
           sName == IF n > -1 THEN Substring(sResourceName, 0, n) ELSE sResourceName
           c == mix(mix(defaultConfig, config), settings)
       IN  /\ conf' = c
           /\ requested' = <<<<"text!" \o toUrl(nameWithExt(sName, ToStr(c.defaultExt))),
                               "require">>>>
    /\ arguments' = [sResourceName |-> sResourceName, config |-> config]
    /\ pc' = "text"
    /\ UNCHANGED <<moduleVars, parseVars, substVars, delivered>>

\* The host delivers the text: the callback calls conf.parse, which looks for
\* the first tag.
TextDelivered(text) ==
    /\ pc = "text"
    /\ sInput' = text
    /\ sText' = text
    /\ foundTag' = findTag(text, 0, conf)
    /\ nStart' = 0
    /\ pc' = "parse"
    /\ UNCHANGED <<moduleVars, arguments, conf, requested, sTag, tagResult, deps, depMap, inclusionMap, tagLog, ifLog,
                   substVars, delivered>>

\* The host does not deliver the text: the callback is never called.
TextFailed ==
    /\ pc = "text"
    /\ pc' = "failed"
    /\ UNCHANGED <<moduleVars, arguments, conf, requested, parseVars, substVars, delivered>>

\* PushDeps without the test for a dependency that is already added.
PushDepsAll(list, keys, dependency) == list \o dependency

\* PushDeps of a parse that records the inclusion of a tag and not its dependency.
PushDepsNone(list, keys, dependency) == list

RECURSIVE PushDeps(_, _, _)
\* deps after the loop over the dependencies of a tag; keys are the own keys of depMap.
PushDeps(list, keys, dependency) ==
    IF dependency = <<>> THEN list
    ELSE IF InObject(Head(dependency), keys)
         THEN PushDeps(list, keys, Tail(dependency))
         ELSE PushDeps(Append(list, Head(dependency)),
                       keys \cup {Head(dependency)}, Tail(dependency))

Range(q) == {q[i] : i \in 1 .. Len(q)}

\* The keys of inclusionMap.
InclusionNames(map) == {map[i].name : i \in 1 .. Len(map)}

\* PutInclusion with every occurrence of a name written over the entry of the name.
PutInclusionLast(map, inclusion) ==
    IF inclusion = <<>> THEN map
    ELSE IF InObject(inclusion[1].name, InclusionNames(map))
    THEN [i \in 1 .. Len(map) |->
            IF map[i].name = inclusion[1].name THEN inclusion[1] ELSE map[i]]
    ELSE Append(map, inclusion[1])

\* inclusionMap after the tag's inclusion is looked at.
PutInclusion(map, inclusion) ==
    IF inclusion # <<>> /\ ~InObject(inclusion[1].name, InclusionNames(map))
    THEN Append(map, inclusion[1])
    ELSE map

\* Splice with the closing sign of the tag left in the text.
SpliceBeforeClosing(text, pos, nK, replacement) ==
    Substring(text, 0, pos) \o replacement \o SubstringFrom(text, nK - 1)

\* The text with the tag that ends before position nK replaced.
Splice(text, pos, nK, replacement) ==
    Substring(text, 0, pos) \o replacement \o SubstringFrom(text, nK)

\* ClosingOf with the search for the closing sign begun at the start of the text.
ClosingOfFromStart(text, tag) == IndexOf(text, ">", 0)

\* The position of the closing sign of the found tag, -1 when there is none.
ClosingOf(text, tag) == IndexOf(text, ">", tag.position + Len(tag.tagStart))

\* LoopEnds without the test for the closing sign of the found tag.
LoopEndsWithoutTag(text, found) == found = <<>>

\* The loop of parse is left: no tag is found, or the found tag has no closing sign.
LoopEnds(text, found) == IF found = <<>> THEN TRUE ELSE ClosingOf(text, found[1]) = -1

\* One iteration of the loop of parse that does not leave it.
ParseStep ==
    /\ pc = "parse"
    /\ ~LoopEnds(sText, foundTag)
    /\ LET pos == foundTag[1].position
           nStartLen == Len(foundTag[1].tagStart)
           nK == ClosingOf(sText, foundTag[1])
           tag == Substring(sText, pos, nK + 1)
           attrMap == extractAttributes(Substring(tag, nStartLen, Len(tag) - 1))
           res == processTag(tag, attrMap, conf)
           text == IF res.text # tag THEN Splice(sText, pos, nK + 1, res.text) ELSE sText
           next == IF res.text # tag THEN pos ELSE nK + 1
       IN  IF nK = 0
           THEN /\ foundTag' = findTag(sText, nK + 1, conf)
                /\ nStart' = nK + 1
                /\ UNCHANGED <<pc, sText, sTag, tagResult, deps, depMap, inclusionMap, tagLog,
                               ifLog>>
           ELSE IF processTagThrows(tag, attrMap, conf)
           THEN /\ pc' = "error"
                /\ sTag' = tag
                /\ ifLog' = ifLog \o ProcessIfCalls(Len(tagLog) + 1, tag, attrMap, conf)
                /\ UNCHANGED <<sText, foundTag, nStart, tagResult, deps, depMap, inclusionMap,
                               tagLog>>
           ELSE /\ sTag' = tag
                /\ tagResult' = res
                /\ inclusionMap' = PutInclusion(inclusionMap, res.inclusion)
                /\ deps' = PushDeps(deps, depMap, res.dependency)
                /\ depMap' = Range(deps')
                /\ sText' = text
                /\ foundTag' = findTag(text, next, conf)
                /\ nStart' = next
                /\ tagLog' = Append(tagLog, [tag |-> tag, position |-> pos, attrMap |-> attrMap,
                                             result |-> res])
                /\ ifLog' = ifLog \o ProcessIfCalls(Len(tagLog) + 1, tag, attrMap, conf)
                /\ pc' = pc
    /\ UNCHANGED <<moduleVars, arguments, conf, requested, sInput, substVars, delivered>>

\* ParseReturn with the text of parse given to callback before the dependencies
\* are asked for.
ParseReturnBestEffort ==
    /\ pc = "parse"
    /\ LoopEnds(sText, foundTag)
    /\ delivered' = Append(delivered, sText)
    /\ IF deps # <<>>
       THEN /\ requested' = Append(requested, <<"require">> \o deps)
            /\ pc' = "deps"
       ELSE /\ pc' = "done"
            /\ UNCHANGED requested
    /\ UNCHANGED <<moduleVars, arguments, conf, parseVars, substVars>>

\* ParseReturn without the test for an empty list of dependencies.
ParseReturnAlwaysRequests ==
    /\ pc = "parse"
    /\ LoopEnds(sText, foundTag)
    /\ requested' = Append(requested, <<"require">> \o deps)
    /\ pc' = "deps"
    /\ UNCHANGED <<moduleVars, arguments, conf, parseVars, substVars, delivered>>

\* parse leaves its loop and returns; load asks for the dependencies, or calls
\* callback when there is none.
ParseReturn ==
    /\ pc = "parse"
    /\ LoopEnds(sText, foundTag)
    /\ IF deps # <<>>
       THEN /\ requested' = Append(requested, <<"require">> \o deps)
            /\ pc' = "deps"
            /\ UNCHANGED delivered
       ELSE /\ delivered' = Append(delivered, sText)
            /\ pc' = "done"
            /\ UNCHANGED requested
    /\ UNCHANGED <<moduleVars, arguments, conf, parseVars, substVars>>

\* DepsDelivered with the dependencies asked for once more in the callback.
DepsDeliveredAsksAgain ==
    /\ pc = "deps"
    /\ queue' = [i \in 1 .. Len(inclusionMap) |-> inclusionMap[i].name]
    /\ requested' = Append(requested, <<"require">> \o deps)
    /\ pc' = "subst"
    /\ UNCHANGED <<moduleVars, arguments, conf, parseVars, sInclusion, fetched, resource, nI, sBefore,
                   calls, delivered>>

\* The host delivers the dependencies: the callback begins the loop over inclMap.
DepsDelivered ==
    /\ pc = "deps"
    /\ queue' = [i \in 1 .. Len(inclusionMap) |-> inclusionMap[i].name]
    /\ pc' = "subst"
    /\ UNCHANGED <<moduleVars, arguments, conf, requested, parseVars, sInclusion, fetched, resource, nI, sBefore,
                   calls, delivered>>

\* The host does not deliver the dependencies: the callback is never called.
DepsFailed ==
    /\ pc = "deps"
    /\ pc' = "failed"
    /\ UNCHANGED <<moduleVars, arguments, conf, requested, parseVars, substVars, delivered>>

\* The entry of inclusionMap for the name.
InclusionOf(map, name) == map[CHOOSE i \in 1 .. Len(map) : map[i].name = name]

\* Callee without the execute method of an object.
CalleeFunctionOnly(value) == IF TypeOf(value) = "function" THEN value.body ELSE ""

\* The function that is called for the value of an inclusion, "" when none is.
Callee(value) ==
    IF TypeOf(value) = "function" THEN value.body
    ELSE IF value.t = "object" THEN value.execute
    ELSE ""

\* The text an inclusion's value gives with the data of the inclusion.
ResourceText(value, inclData) ==
    IF Callee(value) # "" THEN ToStr(Call(Callee(value), inclData)) ELSE ToStr(value)

\* The for-in loop takes the next inclusion: its value is got from the host,
\* called when it can be, and made a string.
FetchInclusion(value) ==
    /\ pc = "subst"
    /\ queue # <<>>
    /\ LET inclData == InclusionOf(inclusionMap, Head(queue)).data
       IN  /\ resource' = ResourceText(value, inclData)
           /\ calls' = IF Callee(value) # ""
                       THEN Append(calls, [value |-> value,
                                           this |-> IF TypeOf(value) = "function"
                                                    THEN Null ELSE value,
                                           args |-> inclData,
                                           inclusion |-> Head(queue)])
                       ELSE calls
    /\ fetched' = value
    /\ sInclusion' = sInclusionStart \o Head(queue) \o sInclusionEnd
    /\ nI' = 0
    /\ sBefore' = sText
    /\ pc' = "replace"
    /\ UNCHANGED <<moduleVars, arguments, conf, requested, parseVars, queue, delivered>>

\* One test of the condition of the while loop, and the body when it holds.
ReplaceStep ==
    /\ pc = "replace"
    /\ nI' = IndexOf(sText, sInclusion, nI)
    /\ IF nI' > -1
       THEN /\ sText' = Replace(sText, sInclusion, resource)
            /\ UNCHANGED <<pc, queue>>
       ELSE /\ pc' = "subst"
            /\ queue' = Tail(queue)
            /\ UNCHANGED sText
    /\ UNCHANGED <<moduleVars, arguments, conf, requested, sInput, foundTag, nStart, sTag,
                   tagResult, deps, depMap,
                   inclusionMap, tagLog, ifLog, sInclusion, fetched, resource, sBefore, calls,
                   delivered>>

\* The loop over inclMap is over: callback is called with the text.
Deliver ==
    /\ pc = "subst"
    /\ queue = <<>>
    /\ delivered' = Append(delivered, sText)
    /\ pc' = "done"
    /\ UNCHANGED <<moduleVars, arguments, conf, requested, parseVars, substVars>>

Next ==
    \/ \E sResourceName \in ResourceNames, config \in HostConfigs :
          Load(sResourceName, config)
    \/ \E text \in Documents : TextDelivered(text)
    \/ TextFailed
    \/ ParseStep
    \/ ParseReturn
    \/ DepsDelivered
    \/ DepsFailed
    \/ \E value \in Values : FetchInclusion(value)
    \/ ReplaceStep
    \/ Deliver

Spec == Init /\ [][Next]_vars

\* The steps load takes by itself once the loop of parse is left: the code of a
\* callback runs to its end, and an iteration of a loop is followed by the next.
LoadStep ==
    \/ ParseReturn
    \/ \E value \in Values : FetchInclusion(value)
    \/ ReplaceStep
    \/ Deliver

\* A load call whose code is not stopped from outside after the loop of parse.
\* Whether the host delivers the text and the dependencies is left open.
FairSpec == Spec /\ WF_vars(LoadStep)

----------------------------------------------------------------------------
(* The handlers of load as wholes.  Between two callbacks of the host the code *)
(* of a handler runs to its end, so with several load calls under way the      *)
(* handlers are what interleaves.                                              *)

RECURSIVE ParseLoop(_, _)
\* The loop of parse from the state st of its locals to its end: the iterations
\* are those of ParseStep. threw says that processTag ended by an exception.
ParseLoop(st, settings) ==
    IF LoopEnds(st.sText, st.foundTag)
    THEN [resource |-> st.sText, depList |-> st.deps, inclusionMap |-> st.inclusionMap,
          threw |-> FALSE]
    ELSE LET pos == st.foundTag[1].position
             nStartLen == Len(st.foundTag[1].tagStart)
             nK == ClosingOf(st.sText, st.foundTag[1])
             tag == Substring(st.sText, pos, nK + 1)
             attrMap == extractAttributes(Substring(tag, nStartLen, Len(tag) - 1))
             res == processTag(tag, attrMap, settings)
             text == IF res.text # tag THEN Splice(st.sText, pos, nK + 1, res.text)
                     ELSE st.sText
             next == IF res.text # tag THEN pos ELSE nK + 1
         IN  IF nK = 0
             THEN ParseLoop([st EXCEPT !.foundTag = findTag(st.sText, nK + 1, settings)],
                            settings)
             ELSE IF processTagThrows(tag, attrMap, settings)
             THEN [resource |-> st.sText, depList |-> st.deps,
                   inclusionMap |-> st.inclusionMap, threw |-> TRUE]
             ELSE ParseLoop([sText |-> text,
                             foundTag |-> findTag(text, next, settings),
                             deps |-> PushDeps(st.deps, Range(st.deps), res.dependency),
                             inclusionMap |-> PutInclusion(st.inclusionMap, res.inclusion)],
                            settings)

\* defaultConfig.parse(sText, settings)
parse(text, settings) ==
    ParseLoop([sText |-> text, foundTag |-> findTag(text, 0, settings), deps |-> <<>>,
               inclusionMap |-> <<>>], settings)

RECURSIVE ReplaceLoop(_, _, _, _)
\* The while loop of load for one marker, from the position n on. An iteration
\* that leaves the text as it is would be followed by the same one for ever: the
\* values of HostModule give none.
ReplaceLoop(text, marker, replacement, n) ==
    LET found == IndexOf(text, marker, n)
    IN  IF found = -1 \/ Replace(text, marker, replacement) = text THEN text
        ELSE ReplaceLoop(Replace(text, marker, replacement), marker, replacement, found)

\* The modules of the host: the value loader(...) gives for an inclusion. A module
\* is defined once, so every load call gets the same value for a name.
HostModule(sName) ==
    CASE sName = "view!parts/head.html" -> Fn("render")
      [] sName = "view!foot.html" -> Str("$$9")
      [] sName = "tpl!foot.html" -> Obj("render")
      [] OTHER -> Str("<b>hi</b>")

RECURSIVE Substitute(_, _)
\* The for-in loop of load over the entries of inclMap, from the text of parse.
Substitute(text, inclMap) ==
    IF inclMap = <<>> THEN text
    ELSE LET entry == Head(inclMap)
         IN  Substitute(ReplaceLoop(text,
                                    sInclusionStart \o entry.name \o sInclusionEnd,
                                    ResourceText(HostModule(entry.name), entry.data),
                                    0),
                        Tail(inclMap))

\* conf of load for the arguments of the call and the default configuration of
\* the module as it is when load is called.
SettingsOf(sResourceName, config, defaults) ==
    LET n == IndexOf(sResourceName, "!", 0)
        settings == IF n > -1
                    THEN convertSettings(extractSettings(SubstringFrom(sResourceName, n + 1)))
                    ELSE <<>>
    IN  mix(mix(defaults, config), settings)

\* DefaultsAfterMix when mix has defaultConfig as the object it writes to:
\* mix(defaultConfig, config, settings).
DefaultsMixedInto(defaults, settings) == settings

\* defaultConfig after conf = mix({}, defaultConfig, config, settings): mix writes
\* to the new object that is its first argument.
DefaultsAfterMix(defaults, settings) == defaults

\* The two load calls.
Calls == {1, 2}

\* The texts the host delivers to the two calls.
ConcurrentDocuments ==
    {"a>b ",
     "<link rel=\"stylesheet\" href=\"s.css\"><x-link rel=\"include\" href=\"foot\">",
     "<link rel=\"x-include\" href=\"parts/head\" data-title=\"Hi\">"
        \o "<x-link rel=\"include\" type=\"tpl\" href=\"foot\">"}

\* The locals of a load call that begins.
NewLoad(sResourceName, config, settings) ==
    [pc |-> "text", sResourceName |-> sResourceName, config |-> config, conf |-> settings,
     sText |-> "", parseResult |-> <<>>, delivered |-> <<>>]

\* load(sResourceName, require, callback, config) of the call i, up to its request
\* for the text.
LoadCalled(i, sResourceName, config) ==
    /\ i \notin DOMAIN loads
    /\ LET c == SettingsOf(sResourceName, config, defaultValues)
       IN  /\ loads' = [k \in DOMAIN loads \cup {i} |->
                           IF k = i THEN NewLoad(sResourceName, config, c) ELSE loads[k]]
           /\ defaultValues' = DefaultsAfterMix(defaultValues, c)
    /\ UNCHANGED <<sLoadSettings, normLoads, callVars>>

\* The callback of the text of the call i: parse, then the request for the
\* dependencies, or callback when there is none.
TextCallback(i, text) ==
    /\ i \in DOMAIN loads
    /\ loads[i].pc = "text"
    /\ LET parseResult == parse(text, loads[i].conf)
       IN  loads' = [loads EXCEPT ![i] =
                [loads[i] EXCEPT !.sText = text,
                          !.parseResult = <<parseResult>>,
                          !.pc = IF parseResult.threw THEN "error"
                                 ELSE IF parseResult.depList # <<>> THEN "deps"
                                 ELSE "done",
                          !.delivered = IF ~parseResult.threw /\ parseResult.depList = <<>>
                                        THEN <<parseResult.resource>>
                                        ELSE <<>>]]
    /\ UNCHANGED <<defaultValues, sLoadSettings, normLoads, callVars>>

\* The callback of the dependencies of the call i: the inclusions are made and
\* callback is called.
DepsCallback(i) ==
    /\ i \in DOMAIN loads
    /\ loads[i].pc = "deps"
    /\ loads' = [loads EXCEPT ![i] =
            [loads[i] EXCEPT !.pc = "done",
                             !.delivered =
                                 <<Substitute(loads[i].parseResult[1].resource,
                                              loads[i].parseResult[1].inclusionMap)>>]]
    /\ UNCHANGED <<defaultValues, sLoadSettings, normLoads, callVars>>

ConcurrentNext ==
    \/ \E i \in Calls, sResourceName \in ResourceNames, config \in HostConfigs :
          LoadCalled(i, sResourceName, config)
    \/ \E i \in Calls, text \in ConcurrentDocuments : TextCallback(i, text)
    \/ \E i \in Calls : DepsCallback(i)

\* Two load calls whose handlers the host calls in any order.
ConcurrentSpec == Init /\ [][ConcurrentNext]_vars

----------------------------------------------------------------------------
(* The plugin with normalize: the suffix of the resource name is saved by      *)
(* normalize in the module-wide sLoadSettings and used by the next load.       *)

\* The resources the host loads.
Resources == {"first", "second"}

\* The names the resources are asked by.
NormalizedNames == {"page", "page!cssLoader=link", "head!defaultExt=tpl", "foot!"}

\* if (sLoadSettings)
Truthy(v) == v.t = "string" /\ v.s # ""

\* normalize(sResourceName, normalize, config) for the resource r: the suffix is
\* saved and the name without it is returned.
Normalize(r, sResourceName) ==
    /\ r \notin DOMAIN normLoads
    /\ LET n == IndexOf(sResourceName, "!", 0)
       IN  /\ sLoadSettings' = IF n > -1 THEN Str(SubstringFrom(sResourceName, n + 1))
                                ELSE Null
           /\ normLoads' = [k \in DOMAIN normLoads \cup {r} |->
                   IF k = r
                   THEN [pc |-> "normalized",
                         asked |-> sResourceName,
                         sResourceName |-> IF n > -1 THEN Substring(sResourceName, 0, n)
                                           ELSE sResourceName,
                         config |-> <<>>,
                         conf |-> <<>>]
                   ELSE normLoads[k]]
    /\ UNCHANGED <<defaultValues, loads, callVars>>

\* load(sResourceName, require, callback, config) for the resource r, up to conf:
\* the saved suffix, when there is one, gives the settings and is forgotten.
NormalizedLoad(r, config) ==
    /\ r \in DOMAIN normLoads
    /\ normLoads[r].pc = "normalized"
    /\ LET settings == IF Truthy(sLoadSettings)
                       THEN convertSettings(extractSettings(sLoadSettings.s))
                       ELSE <<>>
       IN  normLoads' = [normLoads EXCEPT ![r] =
               [normLoads[r] EXCEPT !.pc = "loaded",
                                    !.config = config,
                                    !.conf = mix(mix(defaultValues, config), settings)]]
    /\ sLoadSettings' = IF Truthy(sLoadSettings) THEN Null ELSE sLoadSettings
    /\ UNCHANGED <<defaultValues, loads, callVars>>

NormalizeNext ==
    \/ \E r \in Resources, sResourceName \in NormalizedNames : Normalize(r, sResourceName)
    \/ \E r \in Resources, config \in HostConfigs : NormalizedLoad(r, config)

\* The host normalizes and loads several resources, each one normalized before
\* it is loaded.
NormalizeSpec == Init /\ [][NormalizeNext]_vars

----------------------------------------------------------------------------
(* Load calls with loader names of every kind in the string settings *)

\* Resource names whose settings name loaders that are no words.
LoaderResourceNames ==
    {"page",
     "page!inclusionLoader=my-view",
     "page!inclusionLoader=a/b;cssLoader=my-css;defaultInclusionExt=tpl"}

\* Documents with inclusion directives with and without a loader of their own.
LoaderDocuments ==
    {"<p>no directive</p>",
     "<link rel=\"include\" href=\"foot\"><link rel=\"css\" href=\"s.css\">",
     "<link rel=\"include\" type=\"my-tpl\" href=\"foot\"><p>x</p>",
     "<link rel=\"include\" href=\"view!parts/head.html\" data-title=\"Hi\">",
     "<link rel=\"x-include\" href=\"a/b!foot.html\">"}

\* One iteration of the loop of parse on a text of at most MaxTextLen characters.
ParseStepWithin == Len(sText) <= MaxTextLen /\ ParseStep

LoaderNext ==
    \/ \E sResourceName \in LoaderResourceNames : Load(sResourceName, <<>>)
    \/ \E text \in LoaderDocuments : TextDelivered(text)
    \/ ParseStepWithin
    \/ ParseReturn

\* A load call up to the return of parse.
LoaderSpec == Init /\ [][LoaderNext]_vars

----------------------------------------------------------------------------
(* Load calls with values that hold the beginning of a marker *)

\* Documents with two inclusions and text between and behind them.
SubstitutionDocuments ==
    {"<p>x</p>",
     "<link rel=\"include\" href=\"foot\"><link rel=\"include\" href=\"a\">foot.html\">",
     "<link rel=\"include\" href=\"a\">foot.html\"><link rel=\"include\" href=\"foot\">",
     "<link rel=\"include\" href=\"a\"><p>x</p><link rel=\"include\" href=\"foot\">",
     "<link rel=\"x-include\" href=\"parts/head\" data-title=\"Hi\">"
        \o "<link rel=\"css\" href=\"s.css\">",
     "<link rel=\"include\" href=\"foot\"><p>x</p><link rel=\"include\" href=\"foot\">"}

\* The modules of the host: a module is defined once, so an inclusion has one
\* value. The value of view!a.html is a text that ends with the beginning of a
\* marker.
SubstitutionModule(sName) ==
    CASE sName = "view!a.html" -> Str("<link rel=\"x-include\" href=\"view!")
      [] sName = "view!foot.html" -> Str("X")
      [] sName = "view!parts/head.html" -> Fn("render")
      [] OTHER -> Str("<b>hi</b>")

\* The for-in loop takes the next inclusion and gets the module of its name.
FetchModule ==
    /\ pc = "subst"
    /\ queue # <<>>
    /\ FetchInclusion(SubstitutionModule(Head(queue)))

SubstitutionNext ==
    \/ \E sResourceName \in ResourceNames : Load(sResourceName, <<>>)
    \/ \E text \in SubstitutionDocuments : TextDelivered(text)
    \/ ParseStep
    \/ ParseReturn
    \/ DepsDelivered
    \/ FetchModule
    \/ ReplaceStep
    \/ Deliver

\* A load call whose host delivers the text and the dependencies.
SubstitutionSpec == Init /\ [][SubstitutionNext]_vars

----------------------------------------------------------------------------
(* Properties *)

RECURSIVE ReplaceAllLiteral(_, _, _)
\* s with every occurrence of pat, from left to right, replaced by the text v as it is.
ReplaceAllLiteral(s, pat, v) ==
    LET i == IndexOf(s, pat, 0)
    IN  IF i = -1 THEN s
        ELSE Substring(s, 0, i) \o v \o ReplaceAllLiteral(SubstringFrom(s, i + Len(pat)), pat, v)

\* The replacement of a marker is over: the loop over its occurrences was left.
ReplacedMarker == pc \in {"subst", "done"} /\ sInclusion # ""

\* C1: when the replacement of an inclusion's marker is over, the document is the
\* document as it was before with every occurrence of the marker
\* <link rel="x-include" href="IDENTIFIER"> replaced by the string of the value,
\* character for character.
C1_MarkerReplacedByValue ==
    ReplacedMarker => sText = ReplaceAllLiteral(sBefore, sInclusion, resource)

\* The positions in tagLog of the tags that gave the dependency d.
TagsOfDependency(d) ==
    {k \in 1 .. Len(tagLog) : d \in Range(tagLog[k].result.dependency)}

\* C2: the dependency list holds no identifier twice, each of its identifiers is
\* the dependency of a processed tag, and its order is the order in which the
\* identifiers first occurred in the pass over the document.
C2_DepsDistinctInFirstOccurrenceOrder ==
    /\ \A i, j \in 1 .. Len(deps) : deps[i] = deps[j] => i = j
    /\ \A i \in 1 .. Len(deps) : TagsOfDependency(deps[i]) # {}
    /\ \A i, j \in 1 .. Len(deps) :
          i < j => Min(TagsOfDependency(deps[i])) < Min(TagsOfDependency(deps[j]))

\* parse returned a list of several dependencies for a document in which two
\* directives that are no inclusions gave the same identifier.
C2_Witness ==
    /\ pc = "deps"
    /\ Len(deps) >= 2
    /\ \E k1, k2 \in 1 .. Len(tagLog) :
          /\ k1 < k2
          /\ tagLog[k1].result.inclusion = <<>>
          /\ tagLog[k1].result.dependency # <<>>
          /\ tagLog[k1].result.dependency = tagLog[k2].result.dependency

\* The positions in tagLog of the tags that gave an inclusion of the name.
TagsOfInclusion(name) ==
    {k \in 1 .. Len(tagLog) :
        /\ tagLog[k].result.inclusion # <<>>
        /\ tagLog[k].result.inclusion[1].name = name}

\* The names of the inclusions the processed tags gave.
LoggedInclusionNames ==
    {tagLog[k].result.inclusion[1].name :
        k \in {i \in 1 .. Len(tagLog) : tagLog[i].result.inclusion # <<>>}}

\* C3: for every identifier that inclusion directives of the document resolved to,
\* the inclusion registry has exactly one entry, the entry has the data of the
\* first of these directives, and the dependency list holds the identifier once.
C3_FirstInclusionWins ==
    \A name \in LoggedInclusionNames :
        /\ Cardinality({i \in 1 .. Len(inclusionMap) : inclusionMap[i].name = name}) = 1
        /\ InclusionOf(inclusionMap, name).data =
              tagLog[Min(TagsOfInclusion(name))].result.inclusion[1].data
        /\ Cardinality({i \in 1 .. Len(deps) : deps[i] = name}) = 1

\* parse returned for a document with two inclusion directives of one identifier
\* and different data.
C3_Witness ==
    /\ pc = "deps"
    /\ \E k1, k2 \in 1 .. Len(tagLog) :
          /\ k1 < k2
          /\ tagLog[k1].result.inclusion # <<>>
          /\ k2 \in TagsOfInclusion(tagLog[k1].result.inclusion[1].name)
          /\ tagLog[k1].result.inclusion[1].data # <<>>
          /\ tagLog[k2].result.inclusion[1].data # <<>>
          /\ tagLog[k1].result.inclusion[1].data # tagLog[k2].result.inclusion[1].data

\* The tag is an inclusion directive that passes the filter and that the
\* evaluator of conditions does not drop.
SurvivingInclusion(e) ==
    /\ Attr(e.attrMap, "href") # ""
    /\ ToLowerCase(Attr(e.attrMap, "rel")) \in {"include", "x-include"}
    /\ IF "data-if" \in DOMAIN e.attrMap
       THEN processIf(IfData(e.tag, e.attrMap, conf)) = "true"
       ELSE TRUE

\* C4: for every inclusion directive that passes the filter and is not dropped,
\* processTag returns an inclusion, the dependency is the name of the inclusion,
\* and the text is <link rel="x-include" href="NAME"> with that name.
C4_InclusionResult ==
    \A k \in 1 .. Len(tagLog) :
        SurvivingInclusion(tagLog[k]) =>
            /\ tagLog[k].result.inclusion # <<>>
            /\ tagLog[k].result.dependency = <<tagLog[k].result.inclusion[1].name>>
            /\ tagLog[k].result.text =
                  "<link rel=\"x-include\" href=\""
                  \o tagLog[k].result.inclusion[1].name \o "\">"

\* An inclusion directive of the tag x-link with a loader in its href was processed,
\* and one of the tag link with a loader in its type attribute.
C4_Witness ==
    /\ \E k \in 1 .. Len(tagLog) :
          /\ SurvivingInclusion(tagLog[k])
          /\ tagLog[k].tag = "<x-link rel=\"include\" href=\"view!parts/head.html\" data-title=\"Yo\">"
    /\ \E k \in 1 .. Len(tagLog) :
          /\ SurvivingInclusion(tagLog[k])
          /\ tagLog[k].tag = "<link rel=\"include\" type=\"tpl\" href=\"foot\">"

\* The tag is a style directive that passes the filter.
StyleDirective(e) ==
    /\ Attr(e.attrMap, "href") # ""
    /\ ToLowerCase(Attr(e.attrMap, "rel")) \in {"stylesheet", "css"}

\* C5 as it is claimed: the dependency of a style directive is the href as it is
\* when the href has a loader prefix (it matches ^\w+!), and the configured
\* cssLoader, "!" and the href otherwise.
C5_StyleLoaderAnyPrefix ==
    \A k \in 1 .. Len(tagLog) :
        StyleDirective(tagLog[k]) =>
            tagLog[k].result.dependency =
                <<IF pluginRegExpTest(tagLog[k].attrMap.href)
                  THEN tagLog[k].attrMap.href
                  ELSE ToStr(conf.cssLoader) \o "!" \o tagLog[k].attrMap.href>>

\* The href begins with the loader css or the loader link.
HasCssOrLinkPrefix(href) ==
    Substring(href, 0, 4) = "css!" \/ Substring(href, 0, 5) = "link!"

\* C5 as amended: the dependency of a style directive is the href as it is when the
\* href begins with "css!" or "link!", and the configured cssLoader, "!" and the
\* href otherwise; an href with one of these two prefixes is not prefixed again.
C5_StyleLoaderCssOrLink ==
    \A k \in 1 .. Len(tagLog) :
        StyleDirective(tagLog[k]) =>
            tagLog[k].result.dependency =
                <<IF HasCssOrLinkPrefix(tagLog[k].attrMap.href)
                  THEN tagLog[k].attrMap.href
                  ELSE ToStr(conf.cssLoader) \o "!" \o tagLog[k].attrMap.href>>

\* parse returned for a document with a style directive whose href has the prefix
\* css! and one whose href has no prefix.
C5_Witness ==
    /\ pc = "deps"
    /\ \E k \in 1 .. Len(tagLog) :
          /\ StyleDirective(tagLog[k])
          /\ Substring(tagLog[k].attrMap.href, 0, 4) = "css!"
    /\ \E k \in 1 .. Len(tagLog) :
          /\ StyleDirective(tagLog[k])
          /\ ~pluginRegExpTest(tagLog[k].attrMap.href)

\* P is a path: it is not empty and names no loader.
IsPath(P) == P # "" /\ IndexOf(P, "!", 0) = -1

\* The path P of which the tag is one of the four equal directives, "" when it is none:
\* rel=stylesheet href=P, rel=css href=css!P, rel=x-require href=css!P,
\* rel=require type=css href=P.
EqualDirectivePath(a) ==
    LET rel == Attr(a, "rel")
        href == Attr(a, "href")
    IN  IF DOMAIN a = {"rel", "href"} /\ rel = "stylesheet" /\ IsPath(href)
        THEN href
        ELSE IF /\ DOMAIN a = {"rel", "href"}
                /\ rel \in {"css", "x-require"}
                /\ Substring(href, 0, 4) = "css!"
                /\ IsPath(SubstringFrom(href, 4))
        THEN SubstringFrom(href, 4)
        ELSE IF /\ DOMAIN a = {"rel", "type", "href"}
                /\ rel = "require"
                /\ a.type = "css"
                /\ IsPath(href)
        THEN href
        ELSE ""

\* C6: with cssLoader = css each of the four equal directives of a path P gives
\* the dependency css!P, no inclusion and the empty text, and the document of
\* the four directives gives a dependency list of exactly one entry.
C6_EqualDirectives ==
    conf # <<>> /\ conf.cssLoader = Str("css") =>
        /\ \A k \in 1 .. Len(tagLog) :
              EqualDirectivePath(tagLog[k].attrMap) # "" =>
                  tagLog[k].result =
                      [dependency |-> <<"css!" \o EqualDirectivePath(tagLog[k].attrMap)>>,
                       inclusion |-> <<>>,
                       text |-> ""]
        /\ (pc \in {"deps", "subst", "done"} /\ sInput = EqualDirectivesDoc) =>
              deps = <<"css!path/to/some/style.css">>

\* parse returned for the document of the four equal directives, all of them
\* processed, with cssLoader = css.
C6_Witness ==
    /\ pc = "deps"
    /\ conf.cssLoader = Str("css")
    /\ sInput = EqualDirectivesDoc
    /\ Len(tagLog) = 4
    /\ \A k \in 1 .. 4 : EqualDirectivePath(tagLog[k].attrMap) = "path/to/some/style.css"

\* The tag has a non-empty href and a rel that is in lower case one of the six
\* values of directives.
IsDirective(a) ==
    /\ Attr(a, "href") # ""
    /\ ToLowerCase(Attr(a, "rel")) \in
          {"stylesheet", "css", "require", "x-require", "include", "x-include"}

\* The tag is an inclusion directive whose condition the evaluator reports as false.
DroppedInclusion(e) ==
    /\ IsDirective(e.attrMap)
    /\ ToLowerCase(e.attrMap.rel) \in {"include", "x-include"}
    /\ "data-if" \in DOMAIN e.attrMap
    /\ processIf(IfData(e.tag, e.attrMap, conf)) = "false"

\* C7: a processed tag that has a non-empty href and a rel of one of the six values
\* is treated as a directive (it gives a dependency, unless it is an inclusion
\* that its condition drops); every other processed tag gives the empty text,
\* no dependency and no inclusion.
C7_DirectiveIffHrefAndRel ==
    \A k \in 1 .. Len(tagLog) :
        IF IsDirective(tagLog[k].attrMap)
        THEN DroppedInclusion(tagLog[k]) \/ tagLog[k].result.dependency # <<>>
        ELSE tagLog[k].result = [dependency |-> <<>>, inclusion |-> <<>>, text |-> ""]

\* A tag with a rel in mixed case was processed as a directive and a tag with
\* another rel as none.
C7_Witness ==
    /\ \E k \in 1 .. Len(tagLog) :
          /\ Attr(tagLog[k].attrMap, "rel") = "StyleSheet"
          /\ tagLog[k].result.dependency # <<>>
    /\ \E k \in 1 .. Len(tagLog) :
          /\ ~IsDirective(tagLog[k].attrMap)
          /\ tagLog[k].result.text = ""

\* C8 as it is claimed: a processed tag that fails the filter stays in the
\* document, unchanged at its position, while parse goes on.
C8_UnrecognizedTagKept ==
    pc \in {"parse", "deps"} =>
        \A k \in 1 .. Len(tagLog) :
            ~IsDirective(tagLog[k].attrMap) =>
                Substring(sText, tagLog[k].position, tagLog[k].position + Len(tagLog[k].tag))
                    = tagLog[k].tag

\* A step of parse processed a tag: the tag is the last of tagLog'.
TagProcessed == Len(tagLog') = Len(tagLog) + 1

\* The step of parse took the tag out of the document and added nothing.
TagDeleted(e) ==
    /\ sText' = Substring(sText, 0, e.position)
                \o SubstringFrom(sText, e.position + Len(e.tag))
    /\ deps' = deps
    /\ inclusionMap' = inclusionMap

\* C8 as amended: a tag of a configured name that fails the filter is deleted:
\* after the step of parse that processes it the document is the text before the
\* tag followed by the text after it, and the dependency list and the inclusion
\* registry are as before.
C8_UnrecognizedTagDeleted ==
    [][TagProcessed /\ ~IsDirective(tagLog'[Len(tagLog')].attrMap)
          => TagDeleted(tagLog'[Len(tagLog')])]_vars

\* A tag that fails the filter was processed before a text and parse returned:
\* the document is the text without the tag.
C8_Witness ==
    /\ pc = "done"
    /\ sInput = "<link rel=\"icon\" href=\"f.ico\">a>b "
    /\ sText = "a>b "
    /\ Len(tagLog) = 1
    /\ ~IsDirective(tagLog[1].attrMap)

\* C9: an inclusion directive whose data-if condition the evaluator reports as
\* false is dropped: processTag returns no dependency, no inclusion and the empty
\* text, and the step of parse takes the tag out of the document and adds nothing
\* to the dependency list and the inclusion registry.
C9_FalseConditionDrops ==
    [][TagProcessed /\ DroppedInclusion(tagLog'[Len(tagLog')])
          => /\ tagLog'[Len(tagLog')].result =
                   [dependency |-> <<>>, inclusion |-> <<>>, text |-> ""]
             /\ TagDeleted(tagLog'[Len(tagLog')])]_vars

\* An inclusion directive with data-if="false" was processed after another
\* inclusion, and parse returned the one dependency of the other.
C9_Witness ==
    /\ pc = "deps"
    /\ Len(tagLog) >= 2
    /\ DroppedInclusion(tagLog[Len(tagLog)])
    /\ tagLog[Len(tagLog)].attrMap["data-if"] = "false"
    /\ Len(deps) = 1
    /\ Len(inclusionMap) = 1

HostDeliveredAll ==
    \/ pc = "subst"
    \/ pc = "parse" /\ LoopEnds(sText, foundTag) /\ deps = <<>>

\* C11: in a load call in which the host delivers the text and all the dependencies
\* callback is called exactly once: it is never called twice, it was called once
\* when the call is over, and the call gets there, with or without dependencies.
C11_DeliveredExactlyOnce ==
    /\ [](Len(delivered) <= 1)
    /\ [](pc = "done" => Len(delivered) = 1)
    /\ [](HostDeliveredAll => <>(pc = "done"))

\* C12: when the host does not deliver the text, or does not deliver the
\* dependencies load asked for, callback is not called: it was not called before
\* the failure and the call takes no step after it.
C12_NoDeliveryOnFailure ==
    pc = "failed" => delivered = <<>>

\* The host delivered the text of a document with an inclusion and did not deliver
\* the dependencies.
C12_Witness ==
    /\ pc = "failed"
    /\ Len(requested) = 2
    /\ inclusionMap # <<>>
    /\ sText # ""

\* parse found the opening of a tag that has no closing sign in the rest of the text.
UnterminatedTag ==
    /\ pc = "parse"
    /\ foundTag # <<>>
    /\ IndexOf(sText, ">", foundTag[1].position + Len(foundTag[1].tagStart)) = -1

\* C13: when parse finds the opening of a configured tag and no closing sign after
\* it, the next step is the return of parse and no error: the document, the
\* dependency list and the inclusion registry are as they were, no tag is
\* processed, the opening of the tag is still in the document at its position,
\* and load goes on with them (it asks for the dependencies, or calls callback with
\* the document when there is none).
C13_UnterminatedTagStops ==
    [][UnterminatedTag =>
          /\ pc' \in {"deps", "done"}
          /\ sText' = sText
          /\ deps' = deps
          /\ inclusionMap' = inclusionMap
          /\ tagLog' = tagLog
          /\ Substring(sText', foundTag[1].position,
                       foundTag[1].position + Len(foundTag[1].tagStart))
                = foundTag[1].tagStart
          /\ IF deps = <<>>
             THEN delivered' = <<sText>> /\ requested' = requested
             ELSE requested' = Append(requested, <<"require">> \o deps)
                  /\ delivered' = delivered]_vars

\* parse returned at a tag without a closing sign after it had processed an
\* inclusion: the dependency and the marker of the inclusion are returned, and the
\* text of the tag is at the end of the document.
C13_Witness ==
    /\ pc = "deps"
    /\ foundTag # <<>>
    /\ foundTag[1].name = "x-link"
    /\ deps = <<"view!foot.html">>
    /\ Len(inclusionMap) = 1
    /\ sText = sInclusionStart \o "view!foot.html" \o sInclusionEnd
               \o "<p>x</p><x-link rel=\"css\" href=\"s.css\""

\* C14: when the dependency list parse returns is empty, load asks the host for
\* nothing but the text, fetches and calls no value, and calls callback with the
\* resource of parse as it is.
C14_NoDependenciesNoRequest ==
    [][pc = "parse" /\ LoopEnds(sText, foundTag) /\ deps = <<>> =>
          /\ pc' = "done"
          /\ requested' = requested
          /\ Len(requested) = 1
          /\ calls' = <<>>
          /\ sText' = sText
          /\ delivered' = <<sText>>]_vars

\* parse deleted a tag that is no directive and returned no dependency, and
\* callback was called with the text without the tag.
C14_Witness ==
    /\ pc = "done"
    /\ deps = <<>>
    /\ Len(requested) = 1
    /\ tagLog # <<>>
    /\ sInput = "a>b <link rel=\"icon\" href=\"f.ico\">"
    /\ delivered = <<"a>b ">>

\* The tag names of the settings.
ConfiguredTagNames(settings) ==
    IF settings.directiveTag.t = "string"
    THEN {settings.directiveTag.s}
    ELSE Range(settings.directiveTag.a)

\* The text has no "<name " of a configured tag name.
NoDirectiveTag(text, settings) ==
    \A name \in ConfiguredTagNames(settings) : IndexOf(text, "<" \o name \o " ", 0) = -1

\* C15: for a document without "<name " of any configured tag name parse processes
\* no tag and returns the text as it is, an empty dependency list and no inclusion
\* registry; load asks for no dependency and calls callback with the text as it is.
C15_NoTagsUnchanged ==
    (pc \in {"parse", "deps", "subst", "replace", "done", "error"}
     /\ NoDirectiveTag(sInput, conf)) =>
        /\ sText = sInput
        /\ deps = <<>>
        /\ inclusionMap = <<>>
        /\ tagLog = <<>>
        /\ pc \in {"parse", "done"}
        /\ Len(requested) = 1
        /\ (pc = "done" => delivered = <<sInput>>)

\* With x-link as the one configured tag name a document of a link tag was
\* delivered as it is.
C15_Witness ==
    /\ pc = "done"
    /\ conf.directiveTag = Str("x-link")
    /\ sInput = "<link rel=\"stylesheet\" href=\"s.css\">a>b "
    /\ delivered = <<sInput>>

\* The settings the resource name of the call gives after its first "!", as load
\* reads them.
SuffixSettings ==
    LET n == IndexOf(arguments.sResourceName, "!", 0)
    IN  IF n = -1 THEN <<>>
        ELSE convertSettings(extractSettings(SubstringFrom(arguments.sResourceName, n + 1)))

\* The value of the option in the latest of the three layers that has it.
LayeredValue(k, suffix) ==
    IF k \in DOMAIN suffix THEN suffix[k]
    ELSE IF k \in DOMAIN arguments.config THEN arguments.config[k]
    ELSE defaultConfig[k]

HasExtension(id) ==
    \E i \in Occurrences(id, ".", 0) : Occurrences(id, "/", i) = {}

\* The href with its loader: the href as it is when it begins with a loader, the
\* type attribute and the href when the tag has one, the given loader (none when
\* it is "") and the href otherwise.
WithLoader(a, loader) ==
    IF pluginRegExpTest(a.href) THEN a.href
    ELSE IF Attr(a, "type") # "" THEN a.type \o "!" \o a.href
    ELSE IF loader # "" THEN loader \o "!" \o a.href
    ELSE a.href

\* The tag is a dependency directive that passes the filter.
RequireDirective(e) ==
    /\ Attr(e.attrMap, "href") # ""
    /\ ToLowerCase(Attr(e.attrMap, "rel")) \in {"require", "x-require"}

\* C17: the identifier of an inclusion or dependency directive is the href as it is
\* when the href begins with a loader (^\w+!), even if the tag has a type attribute;
\* without such a loader it is the type attribute, "!" and the href when the tag
\* has a type attribute; with neither, an inclusion gets the configured
\* inclusionLoader and a dependency is the bare href. The identifier of an
\* inclusion has in addition a period and defaultInclusionExt at its end unless
\* it has an extension.
C17_LoaderPrecedence ==
    \A k \in 1 .. Len(tagLog) :
        LET e == tagLog[k]
            incl == WithLoader(e.attrMap, ToStr(conf.inclusionLoader))
        IN  /\ RequireDirective(e) =>
                   e.result.dependency = <<WithLoader(e.attrMap, "")>>
            /\ SurvivingInclusion(e) =>
                   e.result.dependency =
                       <<IF HasExtension(incl) THEN incl
                         ELSE incl \o "." \o ToStr(conf.defaultInclusionExt)>>

\* An inclusion and a dependency with a type attribute and a loader in the href were
\* processed: the loaders of the hrefs were kept.
C17_Witness ==
    /\ pc = "deps"
    /\ \E k \in 1 .. Len(tagLog) :
          /\ SurvivingInclusion(tagLog[k])
          /\ Attr(tagLog[k].attrMap, "type") = "tpl"
          /\ tagLog[k].result.dependency = <<"text!a/b.txt">>
    /\ \E k \in 1 .. Len(tagLog) :
          /\ RequireDirective(tagLog[k])
          /\ Attr(tagLog[k].attrMap, "type") = "css"
          /\ tagLog[k].result.dependency = <<"less!c.less">>

\* The names of the attributes of the tag that begin with data-.
DataAttributes(a) ==
    {n \in DOMAIN a : Len(n) >= 5 /\ SubSeq(n, 1, 5) = "data-"}

\* C18: the inclusion of a surviving inclusion directive has no data when the tag
\* has no attribute whose name begins with data-; otherwise its data has one field
\* for each such attribute and no other, named by the rest of the attribute's name
\* (if for data-if), with the text of the attribute as its value.
C18_DataPayload ==
    \A k \in 1 .. Len(tagLog) :
        SurvivingInclusion(tagLog[k]) =>
            LET a == tagLog[k].attrMap
                inclusion == tagLog[k].result.inclusion
            IN  /\ inclusion # <<>>
                /\ IF DataAttributes(a) = {}
                   THEN inclusion[1].data = <<>>
                   ELSE /\ inclusion[1].data # <<>>
                        /\ DOMAIN inclusion[1].data[1] =
                              {SubSeq(n, 6, Len(n)) : n \in DataAttributes(a)}
                        /\ \A n \in DataAttributes(a) :
                              inclusion[1].data[1][SubSeq(n, 6, Len(n))] = a[n]

\* An inclusion directive with a data-if condition that holds was processed, its
\* data has the field if with the text of the condition, and the marker that
\* replaced it, a tag without data- attributes, gave an inclusion without data.
C18_Witness ==
    /\ pc = "deps"
    /\ \E k \in 1 .. Len(tagLog) :
          /\ SurvivingInclusion(tagLog[k])
          /\ tagLog[k].result.inclusion[1].data = <<[if |-> "data.cssLoader === 'link'"]>>
    /\ \E k \in 1 .. Len(tagLog) :
          /\ SurvivingInclusion(tagLog[k])
          /\ DataAttributes(tagLog[k].attrMap) = {}
          /\ tagLog[k].result.inclusion[1].data = <<>>

\* C19: after parse has replaced a tag by the text of processTag, it goes on after
\* the replacement: no tag that findTag finds later and no tag that is passed to
\* processTag later begins before the end of the text that was put in.
C19_ReplacementNotRescanned ==
    \A k \in 1 .. Len(tagLog) :
        tagLog[k].result.text # tagLog[k].tag =>
            LET end == tagLog[k].position + Len(tagLog[k].result.text)
            IN  /\ \A j \in k + 1 .. Len(tagLog) : tagLog[j].position >= end
                /\ (k = Len(tagLog) /\ pc = "parse" /\ foundTag # <<>>) =>
                       foundTag[1].position >= end

\* The place of a state of the call in the order of its events: the text is asked
\* for (1), parse (2), the dependencies are asked for (3), substitution (4),
\* callback was called (5).
Phase(p) ==
    CASE p = "idle" -> 0
      [] p = "text" -> 1
      [] p = "parse" -> 2
      [] p = "deps" -> 3
      [] p \in {"subst", "replace"} -> 4
      [] p = "done" -> 5
      [] OTHER -> 6

\* C20: the events of a load call come in the order text, parse, one request for
\* all the dependencies, substitution, callback. parse does not begin before the
\* text is delivered; the dependencies are asked for once, all in one request, when
\* parse has returned; no value of an inclusion is fetched or called and
\* callback is not called before the host has delivered the dependencies, when
\* there are any; nothing follows the call of callback.
C20_EventOrder ==
    /\ [](pc \in {"idle", "text"} => tagLog = <<>> /\ sText = "" /\ deps = <<>>)
    /\ [](Len(requested) <= 2)
    /\ [](Len(requested) = 2 <=> (pc \in {"deps", "subst", "replace", "done", "failed"}
                                  /\ deps # <<>>))
    /\ [](Len(requested) = 2 => requested[2] = <<"require">> \o deps)
    /\ []((fetched # Undefined \/ sInclusion # "" \/ calls # <<>> \/ queue # <<>>) =>
             pc \in {"subst", "replace", "done"})
    /\ [](delivered # <<>> <=> pc = "done")
    /\ [][/\ Phase(pc') >= Phase(pc)
          /\ (pc' = "parse" /\ pc # "parse" => pc = "text")
          /\ (pc' = "deps" => pc = "parse")
          /\ (deps # <<>> /\ Phase(pc') = 4 => Phase(pc) = 4 \/ pc = "deps")
          /\ (deps # <<>> /\ pc' = "done" => pc = "subst")
          /\ pc # "done"]_vars

\* A load call with an inclusion went through all its events: the text and the
\* dependencies were asked for, the value of the inclusion was called, and callback
\* was called with the text the value gave.
C20_Witness ==
    /\ pc = "done"
    /\ Len(requested) = 2
    /\ Len(calls) = 1
    /\ fetched = Fn("render")
    /\ delivered = <<"<h1>Hi</h1>">>

\* The document callback gets in a load call with these arguments and this text
\* that is the only one.
DeliveredAlone(sResourceName, config, text) ==
    LET parseResult == parse(text, SettingsOf(sResourceName, config, defaultConfig))
    IN  IF parseResult.depList = <<>> THEN parseResult.resource
        ELSE Substitute(parseResult.resource, parseResult.inclusionMap)

\* C21: of two load calls whose handlers run in any order each has the settings,
\* and its parse returns the document, the dependency list and the inclusion
\* registry, that the call has alone, and callback gets the document it gets when
\* the call is alone.
C21_CallsIndependent ==
    \A i \in DOMAIN loads :
        /\ loads[i].conf =
               SettingsOf(loads[i].sResourceName, loads[i].config, defaultConfig)
        /\ loads[i].parseResult # <<>> =>
               loads[i].parseResult[1] =
                   parse(loads[i].sText,
                         SettingsOf(loads[i].sResourceName, loads[i].config, defaultConfig))
        /\ loads[i].pc = "done" =>
               loads[i].delivered =
                   <<DeliveredAlone(loads[i].sResourceName, loads[i].config, loads[i].sText)>>
        /\ loads[i].pc # "done" => loads[i].delivered = <<>>

\* The second call, made with other settings and another text, is over while the
\* first one still waits for its dependencies.
C21_Witness ==
    /\ DOMAIN loads = Calls
    /\ loads[1].pc = "deps"
    /\ loads[2].pc = "done"
    /\ loads[1].sResourceName = "page!cssLoader=link"
    /\ loads[2].sResourceName = "page"
    /\ loads[1].conf.cssLoader = Str("link")
    /\ loads[2].conf.cssLoader = Str("css")
    /\ loads[1].sText # loads[2].sText
    /\ loads[1].parseResult[1].depList = <<"link!s.css", "view!foot.html">>
    /\ loads[2].delivered = <<"<h1>Hi</h1><h1></h1>">>

\* C22: in the plugin with normalize, the settings load applies to a resource
\* are those of the suffix of the name the resource was asked by, in whatever
\* order the host normalizes and loads several resources.
C22_LoadAppliesOwnSuffix ==
    \A r \in DOMAIN normLoads :
        normLoads[r].pc = "loaded" =>
            normLoads[r].conf = SettingsOf(normLoads[r].asked, normLoads[r].config,
                                           defaultConfig)

\* C23: every identifier that processTag returned as a dependency of a tag of
\* the pass is in the dependency list.
C23_DependenciesListed ==
    \A k \in 1 .. Len(tagLog) :
        \A d \in Range(tagLog[k].result.dependency) : d \in Range(deps)

\* C24: settings.processIf is called only for a tag that passes the filter, is
\* an inclusion directive and has the attribute data-if, and once; for no style
\* or dependency directive and for no inclusion directive without data-if it is
\* called, and an inclusion directive without data-if is always processed.
C24_EvaluatorOnlyForConditionalInclusion ==
    /\ \A i \in 1 .. Len(ifLog) :
          /\ filterTag(ifLog[i].data.tagText, ifLog[i].data.attrMap, ifLog[i].data.settings)
          /\ ToLowerCase(ifLog[i].data.attrMap.rel) \in {"include", "x-include"}
          /\ "data-if" \in DOMAIN ifLog[i].data.attrMap
          /\ ifLog[i].data.condition = ifLog[i].data.attrMap["data-if"]
          /\ \A j \in 1 .. Len(ifLog) : ifLog[j].call = ifLog[i].call => i = j
    /\ \A k \in 1 .. Len(tagLog) :
          LET rel == ToLowerCase(Attr(tagLog[k].attrMap, "rel"))
              evaluated == \E i \in 1 .. Len(ifLog) : ifLog[i].call = k
          IN  /\ ~filterTag(tagLog[k].tag, tagLog[k].attrMap, conf) => ~evaluated
              /\ rel \in {"stylesheet", "css", "require", "x-require"} => ~evaluated
              /\ "data-if" \notin DOMAIN tagLog[k].attrMap => ~evaluated
              /\ ( /\ filterTag(tagLog[k].tag, tagLog[k].attrMap, conf)
                   /\ rel \in {"include", "x-include"}
                   /\ "data-if" \notin DOMAIN tagLog[k].attrMap )
                 => tagLog[k].result.inclusion # <<>>

\* A pass over a style directive with data-if, an inclusion directive without it
\* and an inclusion directive with it: the evaluator was called for the last one
\* only.
C24_Witness ==
    /\ pc = "deps"
    /\ Len(ifLog) = 1
    /\ ifLog[1].data.condition = "1"
    /\ \E k \in 1 .. Len(tagLog) :
          /\ tagLog[k].tag = "<link rel=\"css\" href=\"s.css\" data-if=\"false\">"
          /\ tagLog[k].result.dependency # <<>>
    /\ \E k \in 1 .. Len(tagLog) :
          /\ tagLog[k].tag = "<link rel=\"include\" href=\"foot\">"
          /\ tagLog[k].result.inclusion # <<>>

\* The positions at or after from where the text has "<", the name and a space.
TagStarts(text, name, from) ==
    {i \in Max({from, 0}) .. Len(text) - Len(name) - 2 :
        Substring(text, i, i + Len(name) + 2) = "<" \o name \o " "}

\* The tag names of the settings.
TagNames(settings) ==
    IF TypeOf(settings.directiveTag) = "string" THEN {settings.directiveTag.s}
    ELSE Range(settings.directiveTag.a)

\* C25: the tag findTag returned in the pass, called with the text and a position,
\* is at the smallest position at or after that position where a tag name of the
\* settings stands between "<" and a space, its name is a name that stands there
\* and its tagStart is "<", the name and a space; it is null exactly when no tag
\* name of the settings stands so at or after the position. The name followed at
\* once by ">" is no such place.
C25_FindTagLeftmost ==
    pc = "parse" =>
        LET starts == UNION {TagStarts(sText, name, nStart) : name \in TagNames(conf)}
        IN  /\ foundTag = <<>> <=> starts = {}
            /\ foundTag # <<>> =>
                  /\ foundTag[1].position = Min(starts)
                  /\ foundTag[1].name \in TagNames(conf)
                  /\ foundTag[1].position \in TagStarts(sText, foundTag[1].name, nStart)
                  /\ foundTag[1].tagStart = "<" \o foundTag[1].name \o " "
                  /\ CharAt(sText, foundTag[1].position + Len(foundTag[1].name) + 1) # ">"

\* findTag was called behind the first tag of a text that begins with <link>
\* and has a tag of the second name of the list before a tag of the first one;
\* it returned the tag of the first name.
C25_Witness ==
    /\ pc = "parse"
    /\ sInput = "<link><x-link rel=\"css\" href=\"s.css\"><link rel=\"css\" href=\"t.css\">"
    /\ conf.directiveTag = Arr(<<"link", "x-link">>)
    /\ Len(tagLog) = 1
    /\ tagLog[1].position = 6
    /\ tagLog[1].tag = "<x-link rel=\"css\" href=\"s.css\">"
    /\ nStart = 6
    /\ foundTag = <<[position |-> 6, name |-> "link", tagStart |-> "<link "]>>

\* C26: the default configuration of the module has, at every point of every
\* load call, the values it had when the module was defined.
C26_DefaultsNeverWritten ==
    /\ defaultValues = defaultConfig
    /\ \A k \in DOMAIN defaultConfig : defaultValues[k] = defaultConfig[k]

\* A call with settings in the resource name and a configuration of the host is
\* over, another call waits for its text: the settings of the first call differ
\* from the default ones in two options.
C26_Witness ==
    /\ DOMAIN loads = Calls
    /\ loads[1].pc = "done"
    /\ loads[2].pc = "text"
    /\ loads[1].sResourceName = "page!cssLoader=link"
    /\ loads[1].config # <<>>
    /\ loads[1].conf.cssLoader = Str("link")
    /\ loads[1].conf.directiveTag = Str("x-link")
    /\ defaultValues.cssLoader = Str("css")
    /\ defaultValues.directiveTag = Arr(<<"link", "x-link">>)

\* settings.processIf is called in the step and ends by an exception.
EvaluatorThrows ==
    /\ Len(ifLog') = Len(ifLog) + 1
    /\ processIf(ifLog'[Len(ifLog')].data) = "throw"

\* C27: when the evaluator of conditions ends by an exception while a tag is
\* processed, neither processTag nor parse catches it: the pass ends there without
\* a result (no tag result, no change of the document, of the dependency list and
\* of the inclusion registry, no request for dependencies), the load call takes
\* no further step and callback is never called.
C27_EvaluatorErrorPropagates ==
    /\ [][EvaluatorThrows =>
            /\ pc' = "error"
            /\ UNCHANGED <<sText, tagLog, tagResult, deps, inclusionMap, requested, delivered>>]_vars
    /\ [](pc = "error" => delivered = <<>> /\ Len(requested) = 1)
    /\ [][pc = "error" => pc' = "error"]_vars

\* The evaluator was called for the condition nope of the first tag of a document
\* that has a style directive after it, and the pass ended by its exception.
C27_Witness ==
    /\ pc = "error"
    /\ Len(ifLog) = 1
    /\ ifLog[1].data.condition = "nope"
    /\ processIf(ifLog[1].data) = "throw"
    /\ sText = sInput
    /\ IndexOf(sText, "<link rel=\"css\"", 1) > -1
    /\ deps = <<>>
    /\ delivered = <<>>

\* The tag openings of the text the host delivered.
TagOpenings == Cardinality(Occurrences(sInput, "<", 0))

\* C28: the pass of parse ends for every document and every string setting. A
\* pass that ends calls processTag for a tag of the document, for the marker the
\* tag is replaced by and, when that marker is replaced by another one, for that
\* one, which stays as it is: it has at most three calls for every < of the
\* document.
C28_ParseTerminates ==
    Len(tagLog) <= 3 * TagOpenings

\* C29: the loop of load over the inclusion registry ends and callback is called,
\* whatever the registry and the values the host has for the inclusions are.
C29_SubstitutionTerminates ==
    [](pc \in {"subst", "replace"} => <>(pc = "done" /\ Len(delivered) = 1))

\* The marker of the inclusion of the name.
MarkerOf(name) == sInclusionStart \o name \o sInclusionEnd

\* The result of processTag for the marker of the name, as parse calls it.
MarkerResult(name, settings) ==
    LET tag == MarkerOf(name)
    IN  processTag(tag, extractAttributes(Substring(tag, Len("<link "), Len(tag) - 1)),
                   settings)

\* C30: for every name that processTag gave to an inclusion of the pass, processTag
\* gives for the marker of the name the same name as dependency and as inclusion
\* and the marker itself as text; so the pass has at most one identifier and one
\* entry of the registry for every tag of the document.
C30_MarkerClassifiedAsItself ==
    /\ \A name \in LoggedInclusionNames :
          /\ MarkerResult(name, conf).dependency = <<name>>
          /\ MarkerResult(name, conf).text = MarkerOf(name)
          /\ MarkerResult(name, conf).inclusion # <<>>
          /\ MarkerResult(name, conf).inclusion[1].name = name
    /\ Len(deps) <= TagOpenings
    /\ Len(inclusionMap) <= TagOpenings

RECURSIVE Rewritten(_, _)
\* The text with the spans of the processed tags of the log replaced, one after
\* the other, by the texts processTag returned for them.
Rewritten(text, log) ==
    IF log = <<>> THEN text
    ELSE Rewritten(Substring(text, 0, Head(log).position)
                       \o Head(log).result.text
                       \o SubstringFrom(text, Head(log).position + Len(Head(log).tag)),
                   Tail(log))

RECURSIVE SpansAreTags(_, _)
\* Every processed tag of the log stood, when it was processed, in the span of
\* the text that is replaced for it.
SpansAreTags(text, log) ==
    IF log = <<>> THEN TRUE
    ELSE /\ Substring(text, Head(log).position, Head(log).position + Len(Head(log).tag))
               = Head(log).tag
         /\ SpansAreTags(Rewritten(text, <<Head(log)>>), Tail(log))

\* sText is the text of parse: the pass is under way or over and no inclusion
\* has been made in the text.
TextOfParse == pc \in {"parse", "deps", "error"} \/ (pc = "done" /\ inclusionMap = <<>>)

\* C31: parse changes the document only in the spans of the tags it processes:
\* its text is the text the host delivered with the span of every processed tag
\* replaced by the text processTag returned for the tag, every character outside
\* these spans in its place and order; a step that processes a tag for which
\* processTag returns the tag itself leaves the text as it is.
C31_OnlyTagSpansChange ==
    /\ [](TextOfParse => /\ SpansAreTags(sInput, tagLog)
                         /\ sText = Rewritten(sInput, tagLog))
    /\ [][TagProcessed /\ tagLog'[Len(tagLog')].result.text = tagLog'[Len(tagLog')].tag
            => sText' = sText]_vars

\* parse returned for a document that begins with text that is no tag: a tag was
\* replaced by a marker, the marker was processed and left as it is, and the text
\* before the tag is where it was.
C31_Witness ==
    /\ pc = "deps"
    /\ Substring(sInput, 0, 4) = "a>b "
    /\ Substring(sText, 0, 4) = "a>b "
    /\ sText # sInput
    /\ \E k \in 1 .. Len(tagLog) :
          tagLog[k].result.text # tagLog[k].tag /\ tagLog[k].result.text # ""
    /\ \E k \in 1 .. Len(tagLog) : tagLog[k].result.text = tagLog[k].tag

\* C32: after every step of parse every name of the inclusion registry is in the
\* dependency list, so a registry with an entry goes with a dependency list with
\* an entry, and load asks for the dependencies and makes the inclusions: callback
\* is not called with the text of parse while an inclusion is registered.
C32_RegisteredInclusionsAreDependencies ==
    /\ [](\A i \in 1 .. Len(inclusionMap) : inclusionMap[i].name \in Range(deps))
    /\ [](inclusionMap # <<>> => deps # <<>>)
    /\ [][pc = "parse" /\ pc' # "parse" /\ inclusionMap # <<>>
            => pc' \in {"deps", "error"} /\ delivered' = <<>>]_vars
    /\ [](pc = "done" /\ inclusionMap # <<>> => Len(requested) = 2 /\ queue = <<>>)

\* The substitution is over for a document with two inclusions of different names
\* and a dependency directive: both names are in the dependency list.
C32_Witness ==
    /\ pc = "done"
    /\ Len(inclusionMap) = 2
    /\ Len(deps) = 3
    /\ inclusionMap[1].name # inclusionMap[2].name
    /\ Len(requested) = 2

\* The orders in which a loop can take the entries of the registry.
RegistryOrders(map) ==
    {q \in [1 .. Len(map) -> 1 .. Len(map)] :
        \A i, j \in 1 .. Len(map) : q[i] = q[j] => i = j}

RECURSIVE SubstitutedInOrder(_, _, _)
\* The text after the loop of load has taken the entries of the registry in the
\* order q, with the modules of SubstitutionModule.
SubstitutedInOrder(text, map, q) ==
    IF q = <<>> THEN text
    ELSE SubstitutedInOrder(
             ReplaceLoop(text, MarkerOf(map[Head(q)].name),
                         ResourceText(SubstitutionModule(map[Head(q)].name),
                                      map[Head(q)].data),
                         0),
             map, Tail(q))

\* The string of the value of no inclusion of the registry holds the marker of an
\* inclusion of the registry.
NoValueHoldsMarker ==
    \A i, j \in 1 .. Len(inclusionMap) :
        IndexOf(ResourceText(SubstitutionModule(inclusionMap[i].name), inclusionMap[i].data),
                MarkerOf(inclusionMap[j].name), 0) = -1

\* C33: when the string of no value holds a marker, the document callback gets
\* is the document that the loop of load gives in every order of the entries of
\* the registry, and it holds the marker of no inclusion of the registry.
C33_SubstitutionOrderIndependent ==
    (pc = "done" /\ inclusionMap # <<>> /\ NoValueHoldsMarker) =>
        /\ \A q \in RegistryOrders(inclusionMap) :
              delivered = <<SubstitutedInOrder(parse(sInput, conf).resource, inclusionMap, q)>>
        /\ \A i \in 1 .. Len(inclusionMap) :
              IndexOf(delivered[1], MarkerOf(inclusionMap[i].name), 0) = -1

\* C34: in parse, the closing sign of a found tag is never at position 0, as it
\* is searched from behind the opening of the tag; so every iteration of the loop
\* that does not leave it gives the tag, from its opening to its closing sign, to
\* processTag, and none only moves the start of the search behind the sign.
C34_ClosedTagsAreClassified ==
    /\ [](pc = "parse" /\ foundTag # <<>> /\ ClosingOf(sText, foundTag[1]) # -1 =>
              ClosingOf(sText, foundTag[1]) >= foundTag[1].position + Len(foundTag[1].tagStart))
    /\ [](pc = "parse" /\ foundTag # <<>> => Len(foundTag[1].tagStart) >= 2)
    /\ [][pc = "parse" /\ ~LoopEnds(sText, foundTag) =>
              /\ sTag' = Substring(sText, foundTag[1].position,
                                   ClosingOf(sText, foundTag[1]) + 1)
              /\ pc' = "error" \/ TagProcessed]_vars

\* A tag of a document that begins with the closing sign was given to processTag.
C34_Witness ==
    /\ Substring(sInput, 0, 1) = ">"
    /\ Len(tagLog) = 1
    /\ tagLog[1].position = 1
    /\ tagLog[1].tag = sTag

====
